---- MODULE Spec2Model ----
(***************************************************************************)
(* State-machine model of the e-commerce HTTP service of src/main.py: the  *)
(* three tables User, products and orders, the association table           *)
(* Order_Products, and one action per route handler.  The database is      *)
(* MySQL/InnoDB behind SQLAlchemy: AUTO_INCREMENT primary keys, NOT NULL   *)
(* and FOREIGN KEY constraints as the mapped classes declare them, and the *)
(* unit of work the ORM flushes at db.session.commit().                    *)
(***************************************************************************)
EXTENDS Integers, FiniteSets, Sequences, Bags, TLC

\* Bounds of the model: how many rows each table may ever be given.
MaxUsers == 1
MaxProducts == 2
MaxOrders == 2

\* Values a request may carry.  TooLong is a string longer than the column's
\* String(225)/String(255) and NotADate, NotANumber are values the Date and
\* Float fields of the schema reject.
Strs == {"a", "b"}
TooLong == "<string of 300 characters>"
Dates == {"2024-01-01"}
NotADate == "<not a date>"
Floats == {"9.99"}
NotANumber == "<not a number>"

\* Path parameters <int:id>: the ids the tables can hold and one beyond them.
UserIds == 1..(MaxUsers + 1)
ProductIds == 1..(MaxProducts + 1)
OrderIds == 1..(MaxOrders + 1)

\* The two concurrent requests of the threaded server.
Workers == {"w1", "w2"}

VARIABLES
    User,            \* table User: id -> row
    Products,        \* table products: id -> row
    Orders,          \* table orders: id -> row
    order_products,  \* table Order_Products: a bag of <<order_id, product_id>> rows
    autoinc,         \* next AUTO_INCREMENT value of each table
    resp,            \* the handler that ran last and the response it returned
    session          \* per concurrent request: its position and what it has read

vars == <<User, Products, Orders, order_products, autoinc, resp, session>>

\* The database a handler works on, and what a handler gives back: the HTTP
\* status, the JSON body and the database as its commit (or rollback) left it.
Db ==
    [User |-> User, Products |-> Products, Orders |-> Orders,
     order_products |-> order_products, autoinc |-> autoinc]
Result(status, json, d) ==
    [status |-> status, json |-> json, db |-> d]

----------------------------------------------------------------------------
\* Schemas (SQLAlchemyAutoSchema): one field per column, required when the
\* column is NOT NULL and has neither a default nor AUTO_INCREMENT.

UserSchema ==
    [accepts |-> [id |-> Int, name |-> Strs, email |-> Strs, address |-> Strs],
     required |-> {"name", "email", "address"}]

ProductSchema ==
    [accepts |-> [id |-> Int, product_name |-> Strs, price |-> Floats],
     required |-> {"product_name", "price"}]

OrderSchema ==
    [accepts |-> [id |-> Int, order_date |-> Dates, user_id |-> Int],
     required |-> {"order_date", "user_id"}]

\* Schema.load(json, partial): the fields in error.  Empty: the load succeeds
\* and returns json; otherwise it raises ValidationError.
load(schema, json, partial) ==
    {f \in DOMAIN json : f \notin DOMAIN schema.accepts}
    \cup {f \in DOMAIN json \cap DOMAIN schema.accepts : json[f] \notin schema.accepts[f]}
    \cup (IF partial THEN {} ELSE schema.required \ DOMAIN json)

\* Request bodies: a JSON object is a function from the keys it has.
Merge(f, g) ==
    [k \in DOMAIN f \cup DOMAIN g |-> IF k \in DOMAIN f THEN f[k] ELSE g[k]]
Optional(key, values) ==
    {<<>>} \cup {[k \in {key} |-> v] : v \in values}

\* Bodies of PUT requests: any subset of the keys.  The primary key is a field
\* of the auto-generated schema too, so a body may carry an id.
UserUpdates ==
    {Merge(i, Merge(n, Merge(e, a))) :
        i \in Optional("id", {MaxUsers + 1}),
        n \in Optional("name", Strs \cup {TooLong}),
        e \in Optional("email", Strs),
        a \in Optional("address", Strs)}

ProductUpdates ==
    {Merge(i, Merge(n, p)) :
        i \in Optional("id", {MaxProducts + 1}),
        n \in Optional("product_name", Strs),
        p \in Optional("price", Floats \cup {NotANumber})}

\* Bodies of POST requests: complete ones, and ones whose first required
\* field is missing or rejected.
UserBodies ==
    {json \in UserUpdates : {"email", "address"} \subseteq DOMAIN json /\ "id" \notin DOMAIN json}
ProductBodies ==
    {json \in ProductUpdates : "product_name" \in DOMAIN json /\ "id" \notin DOMAIN json}
OrderBodies ==
    {Merge(d, u) :
        d \in Optional("order_date", Dates \cup {NotADate}),
        u \in Optional("user_id", UserIds)}

\* session.get(Table, id) finds a row; the handlers test it with "if row".
Exists(table, id) == id \in DOMAIN table
\* session.add(row) / attribute assignment, and session.delete(row), at commit.
With(table, row) ==
    [i \in DOMAIN table \cup {row.id} |-> IF i = row.id THEN row ELSE table[i]]
Without(table, id) ==
    [i \in DOMAIN table \ {id} |-> table[i]]
\* DELETE FROM Order_Products for the given rows.
RemoveRows(bag, rows) ==
    [r \in BagToSet(bag) \ rows |-> bag[r]]

----------------------------------------------------------------------------
\* User endpoints

add_user(d, json) ==
    IF load(UserSchema, json, FALSE) # {}
    THEN Result(400, [errors |-> load(UserSchema, json, FALSE)], d)
    ELSE LET new_user == [id |-> d.autoinc.User, name |-> json["name"],
                          email |-> json["email"], address |-> json["address"]]
         IN Result(201, [Message |-> "New User added successfully!", user |-> new_user],
                   [d EXCEPT !.User = With(@, new_user), !.autoinc.User = @ + 1])

get_user(d, id) ==
    IF ~Exists(d.User, id)
    THEN Result(404, [Error |-> "User not found"], d)
    ELSE Result(200, d.User[id], d)

\* update_user with the schema load moved in front of the lookup.
update_user_validates_first(d, id, json) ==
    IF load(UserSchema, json, TRUE) # {}
    THEN Result(400, [errors |-> load(UserSchema, json, TRUE)], d)
    ELSE IF ~Exists(d.User, id)
    THEN Result(404, [Error |-> "User not found"], d)
    ELSE LET old == d.User[id]
             user == [id |-> old.id,
                      name |-> IF "name" \in DOMAIN json THEN json["name"] ELSE old.name,
                      email |-> IF "email" \in DOMAIN json THEN json["email"] ELSE old.email,
                      address |-> IF "address" \in DOMAIN json THEN json["address"]
                                  ELSE old.address]
         IN Result(200, [Message |-> "User updated successfully!", user |-> user],
                   [d EXCEPT !.User = With(@, user)])

update_user(d, id, json) ==
    IF ~Exists(d.User, id)
    THEN Result(404, [Error |-> "User not found"], d)
    ELSE IF load(UserSchema, json, TRUE) # {}
    THEN Result(400, [errors |-> load(UserSchema, json, TRUE)], d)
    ELSE LET old == d.User[id]
             user == [id |-> old.id,
                      name |-> IF "name" \in DOMAIN json THEN json["name"] ELSE old.name,
                      email |-> IF "email" \in DOMAIN json THEN json["email"] ELSE old.email,
                      address |-> IF "address" \in DOMAIN json THEN json["address"]
                                  ELSE old.address]
         IN Result(200, [Message |-> "User updated successfully!", user |-> user],
                   [d EXCEPT !.User = With(@, user)])

\* The flush of db.session.delete(user).  User.orders has no delete cascade, so
\* the unit of work sets user_id of each order of the user to NULL before it
\* deletes the user; orders.user_id is Mapped[int], a NOT NULL column, so with
\* any such order the UPDATE raises IntegrityError: nothing is committed and
\* the request ends as a server error instead of reaching its return.
delete_user(d, id) ==
    IF ~Exists(d.User, id)
    THEN Result(404, [Error |-> "User not found"], d)
    ELSE IF \E o \in DOMAIN d.Orders : d.Orders[o].user_id = id
    THEN Result(500, [Error |-> "IntegrityError"], d)
    ELSE Result(200, [Message |-> "User deleted successfully!"],
                [d EXCEPT !.User = Without(@, id)])

----------------------------------------------------------------------------
\* Product endpoints

create_product(d, json) ==
    IF load(ProductSchema, json, FALSE) # {}
    THEN Result(400, [errors |-> load(ProductSchema, json, FALSE)], d)
    ELSE LET new_product == [id |-> d.autoinc.Products,
                             product_name |-> json["product_name"], price |-> json["price"]]
         IN Result(201, [Messages |-> "New Product added!", product |-> new_product],
                   [d EXCEPT !.Products = With(@, new_product), !.autoinc.Products = @ + 1])

get_product(d, id) ==
    IF ~Exists(d.Products, id)
    THEN Result(404, [Error |-> "Product not found"], d)
    ELSE Result(200, d.Products[id], d)

\* update_product assigning both columns from the body, an omitted one as empty.
update_product_overwrites_all(d, id, json) ==
    IF ~Exists(d.Products, id)
    THEN Result(404, [Error |-> "Product not found"], d)
    ELSE IF load(ProductSchema, json, TRUE) # {}
    THEN Result(400, [errors |-> load(ProductSchema, json, TRUE)], d)
    ELSE LET old == d.Products[id]
             product == [id |-> old.id,
                         product_name |-> IF "product_name" \in DOMAIN json
                                          THEN json["product_name"] ELSE "",
                         price |-> IF "price" \in DOMAIN json THEN json["price"] ELSE ""]
         IN Result(200, [Message |-> "Product updated successfully!", product |-> product],
                   [d EXCEPT !.Products = With(@, product)])

update_product(d, id, json) ==
    IF ~Exists(d.Products, id)
    THEN Result(404, [Error |-> "Product not found"], d)
    ELSE IF load(ProductSchema, json, TRUE) # {}
    THEN Result(400, [errors |-> load(ProductSchema, json, TRUE)], d)
    ELSE LET old == d.Products[id]
             product == [id |-> old.id,
                         product_name |-> IF "product_name" \in DOMAIN json
                                          THEN json["product_name"] ELSE old.product_name,
                         price |-> IF "price" \in DOMAIN json THEN json["price"] ELSE old.price]
         IN Result(200, [Message |-> "Product updated successfully!", product |-> product],
                   [d EXCEPT !.Products = With(@, product)])

\* The flush of db.session.delete(product).  Products.orders is a many-to-many
\* relationship through secondary=order_products, so the unit of work deletes
\* the product's rows of Order_Products and then the product.
\* delete_product that leaves the product's rows of Order_Products behind.
delete_product_leaves_rows(d, id) ==
    IF ~Exists(d.Products, id)
    THEN Result(404, [Error |-> "Product not found"], d)
    ELSE Result(200, [Message |-> "Product deleted successfully!"],
                [d EXCEPT !.Products = Without(@, id)])

delete_product(d, id) ==
    IF ~Exists(d.Products, id)
    THEN Result(404, [Error |-> "Product not found"], d)
    ELSE Result(200, [Message |-> "Product deleted successfully!"],
                [d EXCEPT !.order_products =
                              RemoveRows(@, {r \in BagToSet(@) : r[2] = id}),
                          !.Products = Without(@, id)])

----------------------------------------------------------------------------
\* Order endpoints

\* add_order without the lookup of the user.
add_order_unchecked(d, json) ==
    IF load(OrderSchema, json, FALSE) # {}
    THEN Result(400, [errors |-> load(OrderSchema, json, FALSE)], d)
    ELSE LET new_order == [id |-> d.autoinc.Orders, order_date |-> json["order_date"],
                           user_id |-> json["user_id"]]
         IN Result(201, [Message |-> "New Order Placed!", order |-> new_order],
                   [d EXCEPT !.Orders = With(@, new_order), !.autoinc.Orders = @ + 1])

add_order(d, json) ==
    IF load(OrderSchema, json, FALSE) # {}
    THEN Result(400, [errors |-> load(OrderSchema, json, FALSE)], d)
    ELSE IF Exists(d.User, json["user_id"])
    THEN LET new_order == [id |-> d.autoinc.Orders, order_date |-> json["order_date"],
                           user_id |-> json["user_id"]]
         IN Result(201, [Message |-> "New Order Placed!", order |-> new_order],
                   [d EXCEPT !.Orders = With(@, new_order), !.autoinc.Orders = @ + 1])
    ELSE Result(400, [message |-> "Invalid customer id"], d)

\* order.products: the products joined to the order through Order_Products,
\* one per association row: a bag of product ids.
products(d, order_id) ==
    [p \in {r[2] : r \in {q \in BagToSet(d.order_products) : q[1] = order_id}}
               \cap DOMAIN d.Products
        |-> d.order_products[<<order_id, p>>]]

\* add_product that reports an attach of a present pair as a success.
add_product_ignores_present(d, order_id, product_id) ==
    IF Exists(d.Orders, order_id) /\ Exists(d.Products, product_id)
    THEN IF ~BagIn(product_id, products(d, order_id))
         THEN Result(200, [Message |-> "Successfully added item to order."],
                     [d EXCEPT !.order_products = @ (+) SetToBag({<<order_id, product_id>>})])
         ELSE Result(200, [Message |-> "Successfully added item to order."], d)
    ELSE Result(400, [Message |-> "Invalid order id or product id."], d)

\* add_product without the membership test.
add_product_unchecked(d, order_id, product_id) ==
    IF Exists(d.Orders, order_id) /\ Exists(d.Products, product_id)
    THEN Result(200, [Message |-> "Successfully added item to order."],
                [d EXCEPT !.order_products = @ (+) SetToBag({<<order_id, product_id>>})])
    ELSE Result(400, [Message |-> "Invalid order id or product id."], d)

add_product(d, order_id, product_id) ==
    IF Exists(d.Orders, order_id) /\ Exists(d.Products, product_id)
    THEN IF ~BagIn(product_id, products(d, order_id))
         THEN Result(200, [Message |-> "Successfully added item to order."],
                     [d EXCEPT !.order_products = @ (+) SetToBag({<<order_id, product_id>>})])
         ELSE Result(400, [Message |-> "Item is already included in this order."], d)
    ELSE Result(400, [Message |-> "Invalid order id or product id."], d)

\* remove_product that empties order.products.
remove_product_clears_order(d, order_id, product_id) ==
    IF Exists(d.Orders, order_id) /\ Exists(d.Products, product_id)
    THEN IF BagIn(product_id, products(d, order_id))
         THEN Result(200, [Message |-> "Product removed from order."],
                     [d EXCEPT !.order_products =
                                   RemoveRows(@, {r \in BagToSet(@) : r[1] = order_id})])
         ELSE Result(400, [Message |-> "Product not found in this order."], d)
    ELSE Result(400, [Message |-> "Invalid order id or product id."], d)

remove_product(d, order_id, product_id) ==
    IF Exists(d.Orders, order_id) /\ Exists(d.Products, product_id)
    THEN IF BagIn(product_id, products(d, order_id))
         THEN Result(200, [Message |-> "Product removed from order."],
                     [d EXCEPT !.order_products = RemoveRows(@, {<<order_id, product_id>>})])
         ELSE Result(400, [Message |-> "Product not found in this order."], d)
    ELSE Result(400, [Message |-> "Invalid order id or product id."], d)

\* get_products_for_order listing every product that is on some order.
get_products_for_order_any_order(d, order_id) ==
    IF ~Exists(d.Orders, order_id)
    THEN Result(404, [Error |-> "Order not found"], d)
    ELSE Result(200,
                [row \in {d.Products[p] :
                             p \in {r[2] : r \in BagToSet(d.order_products)}
                                      \cap DOMAIN d.Products}
                    |-> 1],
                d)

\* products_schema.jsonify(order.products): one product row per element.
get_products_for_order(d, order_id) ==
    IF ~Exists(d.Orders, order_id)
    THEN Result(404, [Error |-> "Order not found"], d)
    ELSE Result(200,
                [row \in {d.Products[p] : p \in BagToSet(products(d, order_id))}
                    |-> products(d, order_id)[row.id]],
                d)

----------------------------------------------------------------------------
\* Requests served one at a time: the handler runs on the database as it is,
\* its commit becomes the database and its return the response.

Serve(op, r) ==
    /\ resp' = [op |-> op, status |-> r.status, json |-> r.json]
    /\ User' = r.db.User
    /\ Products' = r.db.Products
    /\ Orders' = r.db.Orders
    /\ order_products' = r.db.order_products
    /\ autoinc' = r.db.autoinc

POST_users(json) ==
    /\ add_user(Db, json).status = 201 => autoinc.User <= MaxUsers
    /\ Serve("add_user", add_user(Db, json))
    /\ UNCHANGED session
GET_user(id) ==
    /\ Serve("get_user", get_user(Db, id))
    /\ UNCHANGED session
PUT_user(id, json) ==
    /\ Serve("update_user", update_user(Db, id, json))
    /\ UNCHANGED session
DELETE_user(id) ==
    /\ Serve("delete_user", delete_user(Db, id))
    /\ UNCHANGED session

POST_products(json) ==
    /\ create_product(Db, json).status = 201 => autoinc.Products <= MaxProducts
    /\ Serve("create_product", create_product(Db, json))
    /\ UNCHANGED session
GET_product(id) ==
    /\ Serve("get_product", get_product(Db, id))
    /\ UNCHANGED session
PUT_product(id, json) ==
    /\ Serve("update_product", update_product(Db, id, json))
    /\ UNCHANGED session
DELETE_product(id) ==
    /\ Serve("delete_product", delete_product(Db, id))
    /\ UNCHANGED session

POST_orders(json) ==
    /\ add_order(Db, json).status = 201 => autoinc.Orders <= MaxOrders
    /\ Serve("add_order", add_order(Db, json))
    /\ UNCHANGED session
PUT_add_product(order_id, product_id) ==
    /\ Serve("add_product", add_product(Db, order_id, product_id))
    /\ UNCHANGED session
DELETE_remove_product(order_id, product_id) ==
    /\ Serve("remove_product", remove_product(Db, order_id, product_id))
    /\ UNCHANGED session
GET_products_for_order(order_id) ==
    /\ Serve("get_products_for_order", get_products_for_order(Db, order_id))
    /\ UNCHANGED session

\* The database after db.create_all(): empty tables.
Init ==
    /\ User = <<>>
    /\ Products = <<>>
    /\ Orders = <<>>
    /\ order_products = EmptyBag
    /\ autoinc = [User |-> 1, Products |-> 1, Orders |-> 1]
    /\ resp = [op |-> "home", status |-> 200, json |-> "Home"]
    /\ session = [w \in Workers |-> [pc |-> "idle", order_id |-> 0, product_id |-> 0, status |-> 0]]

Next ==
    \/ \E json \in UserBodies : POST_users(json)
    \/ \E id \in UserIds : GET_user(id)
    \/ \E id \in UserIds, json \in UserUpdates : PUT_user(id, json)
    \/ \E id \in UserIds : DELETE_user(id)
    \/ \E json \in ProductBodies : POST_products(json)
    \/ \E id \in ProductIds : GET_product(id)
    \/ \E id \in ProductIds, json \in ProductUpdates : PUT_product(id, json)
    \/ \E id \in ProductIds : DELETE_product(id)
    \/ \E json \in OrderBodies : POST_orders(json)
    \/ \E o \in OrderIds, p \in ProductIds : PUT_add_product(o, p)
    \/ \E o \in OrderIds, p \in ProductIds : DELETE_remove_product(o, p)
    \/ \E o \in OrderIds : GET_products_for_order(o)

Spec == Init /\ [][Next]_vars

----------------------------------------------------------------------------
\* Two add_product requests served concurrently.  The development server is
\* threaded and every request has its own session and transaction; the
\* handler reads the order, the product and order.products, and afterwards
\* appends and commits.  Order_Products has no primary key and no unique
\* constraint, and nothing locks the rows that were read.

add_product_read(w, order_id, product_id) ==
    /\ session[w].pc = "idle"
    /\ session' = [session EXCEPT ![w] =
          IF Exists(Orders, order_id) /\ Exists(Products, product_id)
          THEN IF ~BagIn(product_id, products(Db, order_id))
               THEN [pc |-> "append", order_id |-> order_id, product_id |-> product_id,
                     status |-> 0]
               ELSE [pc |-> "done", order_id |-> order_id, product_id |-> product_id,
                     status |-> 400]
          ELSE [pc |-> "done", order_id |-> order_id, product_id |-> product_id,
                status |-> 400]]
    /\ UNCHANGED <<User, Products, Orders, order_products, autoinc, resp>>

add_product_commit(w) ==
    /\ session[w].pc = "append"
    /\ order_products' = order_products (+)
                            SetToBag({<<session[w].order_id, session[w].product_id>>})
    /\ session' = [session EXCEPT ![w].pc = "done", ![w].status = 200]
    /\ UNCHANGED <<User, Products, Orders, autoinc, resp>>

\* A database the sequential requests can have built: one user, every order
\* and product, and any duplicate-free set of association rows.
InitConcurrent ==
    /\ User = [i \in {1} |-> [id |-> i, name |-> "a", email |-> "a", address |-> "a"]]
    /\ Products = [i \in 1..MaxProducts |-> [id |-> i, product_name |-> "a", price |-> "9.99"]]
    /\ Orders = [i \in 1..MaxOrders |-> [id |-> i, order_date |-> "2024-01-01", user_id |-> 1]]
    /\ order_products \in {SetToBag(rows) : rows \in SUBSET ((1..MaxOrders) \X (1..MaxProducts))}
    /\ autoinc = [User |-> 2, Products |-> MaxProducts + 1, Orders |-> MaxOrders + 1]
    /\ resp = [op |-> "home", status |-> 200, json |-> "Home"]
    /\ session = [w \in Workers |-> [pc |-> "idle", order_id |-> 0, product_id |-> 0, status |-> 0]]

NextConcurrent ==
    \/ \E w \in Workers, o \in OrderIds, p \in ProductIds : add_product_read(w, o, p)
    \/ \E w \in Workers : add_product_commit(w)

SpecConcurrent == InitConcurrent /\ [][NextConcurrent]_vars

----------------------------------------------------------------------------
\* Properties.  Each is stated of every reachable database and, where it is
\* about a request, of every request of the bounded sets: the handler is
\* applied to the database as it is (Db) and its result is examined.

Rows == BagToSet(order_products)
AlreadyIncluded == [Message |-> "Item is already included in this order."]
InvalidIds == [Message |-> "Invalid order id or product id."]
NotInOrder == [Message |-> "Product not found in this order."]

\* C1: in every state reached by requests served one at a time, Order_Products
\* holds each (order_id, product_id) row at most once.
C1_PairAtMostOnce ==
    \A r \in Rows : order_products[r] = 1

\* An attach has just succeeded and the table holds several rows.
C1_Witness ==
    /\ resp.op = "add_product"
    /\ resp.status = 200
    /\ Cardinality(Rows) >= 3

\* C2: add_product has three outcomes decided by the database before the call:
\* a missing order or product gives 400 "Invalid order id or product id.", a
\* pair already present gives 400 "Item is already included in this order.",
\* both leaving the database as it was; otherwise 200 with the pair present
\* afterwards, and the same request again is then refused as a conflict.
C2_AddProductOutcomes ==
    \A o \in OrderIds, p \in ProductIds :
        LET r == add_product(Db, o, p)
        IN IF ~(o \in DOMAIN Orders /\ p \in DOMAIN Products)
           THEN r.status = 400 /\ r.json = InvalidIds /\ r.db = Db
           ELSE IF <<o, p>> \in Rows
           THEN r.status = 400 /\ r.json = AlreadyIncluded /\ r.db = Db
           ELSE /\ r.status = 200
                /\ <<o, p>> \in BagToSet(r.db.order_products)
                /\ LET again == add_product(r.db, o, p)
                   IN again.status = 400 /\ again.json = AlreadyIncluded /\ again.db = r.db

\* The second attach of a pair has just been refused.
C2_Witness ==
    /\ resp.op = "add_product"
    /\ resp.status = 400
    /\ resp.json = AlreadyIncluded
    /\ Rows # {}

\* C3: remove_product on an existing order and product: with the pair absent
\* it gives 400 "Product not found in this order." and changes nothing; with
\* the pair present it gives 200, removes that row and no other, and the
\* order's product list that follows is without the product (empty when it was
\* the order's only product).
C3_RemoveProductOutcomes ==
    \A o \in DOMAIN Orders, p \in DOMAIN Products :
        LET r == remove_product(Db, o, p)
            list == get_products_for_order(r.db, o)
        IN IF <<o, p>> \notin Rows
           THEN r.status = 400 /\ r.json = NotInOrder /\ r.db = Db
           ELSE /\ r.status = 200
                /\ r.db = [Db EXCEPT !.order_products =
                                         [x \in Rows \ {<<o, p>>} |-> order_products[x]]]
                /\ list.status = 200
                /\ \A row \in BagToSet(list.json) : row.id # p
                /\ (\A x \in Rows : x[1] = o => x[2] = p) => list.json = EmptyBag

\* A detach has just succeeded and other rows are still in the table.
C3_Witness ==
    /\ resp.op = "remove_product"
    /\ resp.status = 200
    /\ Rows # {}

\* C4: add_order with a user_id that is no existing User gives 400 and leaves
\* the database unchanged, with the body "Invalid customer id" when the rest
\* of the request passes the schema; 201 is returned only when the user exists.
C4_AddOrderNeedsUser ==
    \A json \in OrderBodies :
        LET r == add_order(Db, json)
        IN /\ ("user_id" \in DOMAIN json /\ json["user_id"] \notin DOMAIN User)
                => /\ r.status = 400
                   /\ r.db = Db
                   /\ ("order_date" \in DOMAIN json /\ json["order_date"] \in Dates)
                         => r.json = [message |-> "Invalid customer id"]
           /\ r.status = 201
                => /\ "user_id" \in DOMAIN json
                   /\ json["user_id"] \in DOMAIN User
                   /\ r.db.Orders[autoinc.Orders].user_id = json["user_id"]

\* An order for a user that does not exist has just been refused.
C4_Witness ==
    /\ resp.op = "add_order"
    /\ resp.status = 400
    /\ "message" \in DOMAIN resp.json
    /\ Orders # <<>>

C6_DeleteAlwaysSucceeds ==
    /\ \A id \in UserIds :
          LET r == delete_user(Db, id)
          IN IF id \in DOMAIN User
             THEN r.status = 200 /\ id \notin DOMAIN r.db.User
                  /\ get_user(r.db, id).status = 404
             ELSE r.status = 404 /\ r.db = Db
    /\ \A id \in ProductIds :
          LET r == delete_product(Db, id)
          IN IF id \in DOMAIN Products
             THEN r.status = 200 /\ id \notin DOMAIN r.db.Products
                  /\ get_product(r.db, id).status = 404
             ELSE r.status = 404 /\ r.db = Db

\* C7: update of an id that does not exist gives 404 whatever the body is,
\* a body the schema rejects included, and changes nothing.
C7_UpdateMissingIsNotFound ==
    /\ \A id \in UserIds \ DOMAIN User, json \in UserUpdates :
          LET r == update_user(Db, id, json)
          IN r.status = 404 /\ r.db = Db
    /\ \A id \in ProductIds \ DOMAIN Products, json \in ProductUpdates :
          LET r == update_product(Db, id, json)
          IN r.status = 404 /\ r.db = Db

\* An update of a missing user has just been answered 404, in a state where a
\* user exists, so that a body with a rejected name would give 400 for that one.
C7_Witness ==
    /\ resp.op = "update_user"
    /\ resp.status = 404
    /\ \E id \in DOMAIN User : update_user(Db, id, [name |-> TooLong]).status = 400

\* C8: get_products_for_order of an existing order returns exactly the
\* existing products p with (order_id, p) in Order_Products, each once; of a
\* missing order, 404; it changes nothing.
C8_ListProductsForOrder ==
    \A o \in OrderIds :
        LET r == get_products_for_order(Db, o)
        IN /\ r.db = Db
           /\ IF o \in DOMAIN Orders
              THEN /\ r.status = 200
                   /\ BagToSet(r.json) =
                         {Products[p] : p \in {q \in DOMAIN Products : <<o, q>> \in Rows}}
                   /\ \A row \in BagToSet(r.json) : r.json[row] = 1
              ELSE r.status = 404

\* An order's products have just been listed: one product, while another
\* order holds more rows.
C8_Witness ==
    /\ resp.op = "get_products_for_order"
    /\ resp.status = 200
    /\ Cardinality(BagToSet(resp.json)) = 1
    /\ Cardinality(Rows) >= 3

\* C9: of two concurrent add_product requests for the same pair of an
\* existing order and product, at most one returns 200, and Order_Products
\* ends with exactly one copy of the pair.
C9_OneSuccessOneCopy ==
    \A w1 \in Workers : \A w2 \in Workers \ {w1} :
        (/\ session[w1].pc = "done"
         /\ session[w2].pc = "done"
         /\ session[w1].order_id = session[w2].order_id
         /\ session[w1].product_id = session[w2].product_id
         /\ session[w1].order_id \in DOMAIN Orders
         /\ session[w1].product_id \in DOMAIN Products)
        => /\ ~(session[w1].status = 200 /\ session[w2].status = 200)
           /\ order_products[<<session[w1].order_id, session[w1].product_id>>] = 1

====
